---- MODULE Spec2Model ----
(***************************************************************************)
(* Model of simple_cloudflare_ddns (src/src/main.rs): a single sequential  *)
(* agent that loads its configuration, reads the last applied IPs, resolves *)
(* the zone id and record id of each configured record once, and then      *)
(* loops forever: probe the public IP, update every record whose last IP   *)
(* differs, save the last IPs, sleep.                                      *)
(*                                                                         *)
(* Strings whose characters matter (host names, split on '.') are          *)
(* sequences of one-character strings; IPs and provider ids are opaque.    *)
(***************************************************************************)
EXTENDS Naturals, Sequences, FiniteSets

\* Longest dns_records list of a configuration the model explores.
MaxRecords == 2

-----------------------------------------------------------------------------
(* Host names, as character sequences *)

HomeHost == <<"h", ".", "e", ".", "c">>
ApexHost == <<"e", ".", "c">>
SingleLabel == <<"l">>
ApexUpper == <<"E", ".", "c">>
Hostnames == {HomeHost, ApexHost, SingleLabel}

IPs == {"1.2.3.4", "5.6.7.8"}
\* current_ip is only in scope inside the Ok arm of the probe (main.rs:235).
NoIP == ""

\* DnsRecord values the configurations are built from.
DnsRecord ==
  { [dns_name |-> HomeHost, proxied |-> FALSE],
    [dns_name |-> ApexHost, proxied |-> TRUE],
    [dns_name |-> SingleLabel, proxied |-> FALSE] }

\* Config.dns_records: any list of records, duplicates included.
Config == UNION { [1..n -> DnsRecord] : n \in 0..MaxRecords }

\* What load_config can find: no readable file, a file that is not a Config,
\* or a Config.
ConfigFiles ==
  { [kind |-> k, dns_records |-> <<>>] : k \in {"unreadable", "unparsable"} }
  \cup { [kind |-> "toml", dns_records |-> c] : c \in Config }

-----------------------------------------------------------------------------
(* serde_json::Value, as far as main.rs looks into it *)

EmptyMap == [h \in {} |-> [kind |-> "string", s |-> ""]]
JString(s) == [kind |-> "string", s |-> s]
\* Any member that is not a JSON string (as_str gives None for all of them).
JNumber == [kind |-> "number", s |-> ""]
JNull == [kind |-> "null", map |-> EmptyMap]
\* Any document that is neither null nor an object (array, number, string,
\* bool): get() gives None and index-assignment panics for all of them.
JArray == [kind |-> "array", map |-> EmptyMap]
JObject(m) == [kind |-> "object", map |-> m]

None == [some |-> FALSE, s |-> ""]
Some(s) == [some |-> TRUE, s |-> s]

\* last_ips.get(&record.dns_name).and_then(|v| v.as_str())
GetStr(v, key) ==
  IF v.kind = "object" /\ key \in DOMAIN v.map /\ v.map[key].kind = "string"
  THEN Some(v.map[key].s)
  ELSE None

\* last_ips[&record.dns_name] = json!(ip): serde_json's IndexMut turns Null
\* into an empty object, inserts into an object, and panics on anything else.
IndexAssign(v, key, ip) ==
  LET m == IF v.kind = "null" THEN EmptyMap ELSE v.map
  IN IF v.kind \in {"null", "object"}
     THEN [panic |-> FALSE,
           value |-> JObject([h \in DOMAIN m \cup {key} |->
                               IF h = key THEN JString(ip) ELSE m[h]])]
     ELSE [panic |-> TRUE, value |-> v]

-----------------------------------------------------------------------------
(* The last-IP file *)

FileAbsent == [kind |-> "absent", value |-> JNull]
FileUnreadable == [kind |-> "unreadable", value |-> JNull]
\* Text that is not JSON (an empty or truncated file included).
FileGarbage == [kind |-> "garbage", value |-> JNull]
FileJson(v) == [kind |-> "json", value |-> v]

InitialMaps ==
  UNION { [S -> {JString("1.2.3.4")}] : S \in SUBSET Hostnames }
  \cup { [h \in {HomeHost} |-> JNumber] }

InitialFiles ==
  {FileAbsent, FileUnreadable, FileGarbage, FileJson(JNull), FileJson(JArray)}
  \cup { FileJson(JObject(m)) : m \in InitialMaps }

read_last_ips(f) ==
  IF f.kind = "json" THEN f.value ELSE JObject(EmptyMap)

\* fs::write creates (truncates) the file and then writes; its error is
\* dropped by .ok().
WriteOutcomes == {"written", "not_created", "truncated"}

save_last_ips(f, ips, outcome) ==
  CASE outcome = "written" -> FileJson(ips)
    [] outcome = "not_created" -> f
    [] outcome = "truncated" -> FileGarbage

-----------------------------------------------------------------------------
(* Results and provider responses *)

NoErr == [msg |-> "", target |-> <<>>]
Ok(id) == [ok |-> TRUE, id |-> id, err |-> NoErr]
Err(msg, target) == [ok |-> FALSE, id |-> "", err |-> [msg |-> msg, target |-> target]]

\* A list response of the provider: the request or the decoding of the body
\* fails (the `?` after send / json), or a result list arrives.
ListResponse(lists) ==
  { [kind |-> k, result |-> <<>>] : k \in {"transport", "malformed"} }
  \cup { [kind |-> "ok", result |-> l] : l \in lists }

\* The lists the provider can return: empty, the name alone, the name after
\* entries that differ in case, that the name is a suffix of, or that are a
\* prefix or a suffix of the name, and the name twice.
ZoneLists ==
  { <<>>,
    << [id |-> "z1", name |-> ApexHost] >>,
    << [id |-> "z2", name |-> ApexUpper], [id |-> "z3", name |-> HomeHost],
       [id |-> "z4", name |-> <<"e">>], [id |-> "z5", name |-> <<"c">>],
       [id |-> "z1", name |-> ApexHost] >>,
    << [id |-> "z1", name |-> ApexHost], [id |-> "z2", name |-> ApexHost] >> }

RecordLists ==
  { <<>>,
    << [id |-> "r3", name |-> ApexUpper], [id |-> "r2", name |-> ApexHost] >>,
    << [id |-> "r2", name |-> ApexHost], [id |-> "r1", name |-> HomeHost] >>,
    << [id |-> "r1", name |-> HomeHost], [id |-> "r3", name |-> HomeHost] >> }

ZoneResponses == ListResponse(ZoneLists)
RecordResponses == ListResponse(RecordLists)

\* The ipify answer.
IpResponses ==
  { [kind |-> k, ip |-> NoIP] : k \in {"transport", "malformed"} }
  \cup { [kind |-> "ok", ip |-> a] : a \in IPs }

\* The provider's answer to the PUT: CloudflareResponse needs both `success`
\* and `errors`; a body without them does not decode.
CloudflareResponses ==
  { [kind |-> k, success |-> FALSE] : k \in {"transport", "malformed"} }
  \cup { [kind |-> "ok", success |-> b] : b \in BOOLEAN }

-----------------------------------------------------------------------------
(* The functions of main.rs *)

get_public_ip(resp) ==
  IF resp.kind = "ok" THEN Ok(resp.ip) ELSE Err(resp.kind, <<>>)

\* The scan keeping the last entry of the name instead of returning at the
\* first.
RECURSIVE FirstMatch_Last(_, _)
FirstMatch_Last(list, target) ==
  IF list = <<>> THEN None
  ELSE LET rest == FirstMatch_Last(Tail(list), target)
       IN IF rest.some THEN rest
          ELSE IF Head(list).name = target THEN Some(Head(list).id)
          ELSE None

\* for entry in result { if entry.name == target { return Ok(entry.id) } }
RECURSIVE FirstMatch(_, _)
FirstMatch(list, target) ==
  IF list = <<>> THEN None
  ELSE IF Head(list).name = target THEN Some(Head(list).id)
  ELSE FirstMatch(Tail(list), target)

get_zone_id(resp, domain) ==
  IF resp.kind # "ok" THEN Err(resp.kind, <<>>)
  ELSE LET found == FirstMatch(resp.result, domain)
       IN IF found.some THEN Ok(found.s)
          ELSE Err("Zone ID not found for domain", domain)

get_record_id(resp, zone_id, dns_name) ==
  IF resp.kind # "ok" THEN Err(resp.kind, <<>>)
  ELSE LET found == FirstMatch(resp.result, dns_name)
       IN IF found.some THEN Ok(found.s)
          ELSE Err("DNS record ID not found for domain", dns_name)

\* The request built with `proxied` fixed instead of taken from the record.
DnsUpdateRequest_Unproxied(ip, record, zone_id, record_id) ==
  [zone_id |-> zone_id, record_id |-> record_id, type |-> "A",
   name |-> record.dns_name, content |-> ip, ttl |-> 1, proxied |-> FALSE]

\* The request update_dns_record builds and PUTs.
DnsUpdateRequest(ip, record, zone_id, record_id) ==
  [zone_id |-> zone_id, record_id |-> record_id, type |-> "A",
   name |-> record.dns_name, content |-> ip, ttl |-> 1,
   proxied |-> record.proxied]

NoRequest ==
  [zone_id |-> "", record_id |-> "", type |-> "", name |-> <<>>,
   content |-> NoIP, ttl |-> 0, proxied |-> FALSE]

\* Any answer that decodes taken as success, `success` not looked at.
update_dns_record_IgnoresSuccess(resp) ==
  IF resp.kind # "ok" THEN Err(resp.kind, <<>>) ELSE Ok("")

\* What update_dns_record returns for the provider's answer.
update_dns_record(resp) ==
  IF resp.kind # "ok" THEN Err(resp.kind, <<>>)
  ELSE IF resp.success THEN Ok("")
  ELSE Err("Cloudflare API error", <<>>)

\* record.dns_name.split('.')
RECURSIVE SplitAcc(_, _, _)
SplitAcc(s, cur, acc) ==
  IF s = <<>> THEN Append(acc, cur)
  ELSE IF Head(s) = "." THEN SplitAcc(Tail(s), <<>>, Append(acc, cur))
  ELSE SplitAcc(Tail(s), Append(cur, Head(s)), acc)

split(s) == SplitAcc(s, <<>>, <<>>)

\* The first two labels taken instead of the last two.
ApexDomain_FirstTwo(parts) == parts[1] \o <<".">> \o parts[2]

\* format!("{}.{}", parts[len - 2], parts[len - 1])
ApexDomain(parts) ==
  parts[Len(parts) - 1] \o <<".">> \o parts[Len(parts)]

\* HashMap::insert
MapInsert(m, k, v) ==
  [x \in DOMAIN m \cup {k} |-> IF x = k THEN v ELSE m[x]]

EmptyIds == [h \in {} |-> ""]

-----------------------------------------------------------------------------
(* State *)

VARIABLES
  pc,             \* where main() is: "start", "resolve", "probe", "eval",
                  \* "update", "sleep", "exited", "panicked"
  config_file,    \* config.toml (never written by the program)
  file,           \* last_ips.txt
  config,         \* config.dns_records
  last_ips,       \* the serde_json::Value read at startup, mutated in the loop
  zone_id_map,    \* dns_name -> zone id
  record_id_map,  \* dns_name -> record id
  i,              \* position of the running `for record in &config.dns_records`
  current_ip,     \* the probe result of the running cycle, NoIP outside it
  request,        \* the PUT in flight while pc = "update"
  panic_msg,      \* what the process panicked on, "" while it has not
  \* Observations of the run, read by the properties only:
  calls,          \* update_dns_record invocations of the running cycle
  writes,         \* save_last_ips invocations of the running cycle
  indexed,        \* names used to index zone_id_map / record_id_map
  prev,           \* the last cycle that completed a probe and ended
  loaded,         \* last_ips as read_last_ips returned it
  start_file,     \* last_ips.txt as read_last_ips found it
  last_ok,        \* dns_name -> ip of its latest update that returned Ok
  cycle,          \* "none", "first": the first probed cycle runs, "later"
  at_probe,       \* last_ips as it was when the running cycle's probe returned
  lookups,        \* the provider lookups of the latest startup iteration
  answer,         \* the provider's answer to the PUT, while the loop handles it
  lost            \* updates that returned Ok in a cycle that was killed before
                  \* its save, until the next probed cycle ends

vars ==
  << pc, config_file, file, config, last_ips, zone_id_map, record_id_map, i,
     current_ip, request, panic_msg, calls, writes, indexed, prev, loaded,
     start_file, last_ok, cycle, at_probe, lookups, answer, lost >>

observed ==
  << calls, writes, indexed, prev, loaded, start_file, last_ok, cycle, at_probe >>

NoAnswer == [kind |-> "none", success |-> FALSE]
NoPrev == [ip |-> NoIP, ok |-> {}, fail |-> {}]
NoLastOk == [h \in Hostnames |-> NoIP]

\* The state of a process that main() has just entered.
Fresh ==
  /\ pc = "start"
  /\ config = <<>>
  /\ last_ips = JNull
  /\ zone_id_map = EmptyIds
  /\ record_id_map = EmptyIds
  /\ i = 1
  /\ current_ip = NoIP
  /\ request = NoRequest
  /\ panic_msg = ""
  /\ calls = <<>>
  /\ writes = 0
  /\ indexed = {}
  /\ prev = NoPrev
  /\ loaded = JNull
  /\ start_file = FileAbsent
  /\ last_ok = NoLastOk
  /\ cycle = "none"
  /\ at_probe = JNull
  /\ lookups = <<>>
  /\ answer = NoAnswer
  /\ lost = {}

Init ==
  /\ config_file \in ConfigFiles
  /\ file \in InitialFiles
  /\ Fresh

-----------------------------------------------------------------------------
(* main() up to the loop *)

\* A configuration that does not load replaced by an empty one.
load_config_Default(f) ==
  IF f.kind = "toml" THEN Ok(f.dns_records) ELSE Ok(<<>>)

\* main.rs:175-180
load_config(f) ==
  IF f.kind = "toml" THEN Ok(f.dns_records) ELSE Err(f.kind, <<>>)

\* main.rs:184-196: a configuration that does not load ends the process;
\* otherwise last_ips is read and the two id maps start empty.
Startup ==
  /\ pc = "start"
  /\ LET cfg == load_config(config_file)
     IN IF cfg.ok
        THEN /\ config' = cfg.id
             /\ last_ips' = read_last_ips(file)
             /\ loaded' = read_last_ips(file)
             /\ start_file' = file
             /\ pc' = "resolve"
        ELSE /\ pc' = "exited"
             /\ UNCHANGED << config, last_ips, loaded, start_file >>
  /\ UNCHANGED << config_file, file, zone_id_map, record_id_map, i, current_ip,
                  request, panic_msg, calls, writes, indexed, prev, last_ok,
                  cycle, at_probe, lookups, answer, lost >>

\* One GET of get_zone_id / get_record_id, as the startup loop made it.
Lookup(kind, zone_id, target, resp, result) ==
  [kind |-> kind, zone_id |-> zone_id, target |-> target, resp |-> resp,
   result |-> result]

\* main.rs:198-231, one iteration: a single-label name, a failed zone lookup
\* and a failed record lookup each `continue`; the zone id is inserted before
\* the record lookup.
ResolveRecord ==
  /\ pc = "resolve"
  /\ i <= Len(config)
  /\ LET record == config[i]
         domain_parts == split(record.dns_name)
     IN IF Len(domain_parts) < 2
        THEN /\ lookups' = <<>>
             /\ UNCHANGED << zone_id_map, record_id_map >>
        ELSE \E zresp \in ZoneResponses, rresp \in RecordResponses :
               LET domain == ApexDomain(domain_parts)
                   zone == get_zone_id(zresp, domain)
                   rec == get_record_id(rresp, zone.id, record.dns_name)
               IN IF ~zone.ok
                  THEN /\ lookups' = << Lookup("zone", "", domain, zresp, zone) >>
                       /\ UNCHANGED << zone_id_map, record_id_map >>
                  ELSE /\ lookups' =
                            << Lookup("zone", "", domain, zresp, zone),
                               Lookup("record", zone.id, record.dns_name, rresp, rec) >>
                       /\ zone_id_map' = MapInsert(zone_id_map, record.dns_name, zone.id)
                       /\ IF rec.ok
                          THEN record_id_map' =
                                 MapInsert(record_id_map, record.dns_name, rec.id)
                          ELSE UNCHANGED record_id_map
  /\ i' = i + 1
  /\ UNCHANGED << pc, config_file, file, config, last_ips, current_ip, request,
                  panic_msg, observed, answer, lost >>

\* The startup loop is over: main() enters `loop`.
EnterLoop ==
  /\ pc = "resolve"
  /\ i > Len(config)
  /\ pc' = "probe"
  /\ i' = 1
  /\ lookups' = <<>>
  /\ UNCHANGED << config_file, file, config, last_ips, zone_id_map,
                  record_id_map, current_ip, request, panic_msg, observed,
                  answer, lost >>

-----------------------------------------------------------------------------
(* The polling loop *)

\* main.rs:234-235: the probe answered with an address.
ProbeOk ==
  /\ pc = "probe"
  /\ \E resp \in IpResponses :
       LET r == get_public_ip(resp)
       IN /\ r.ok
          /\ current_ip' = r.id
  /\ pc' = "eval"
  /\ i' = 1
  /\ calls' = <<>>
  /\ writes' = 0
  /\ cycle' = IF cycle = "none" THEN "first" ELSE "later"
  /\ at_probe' = last_ips
  /\ UNCHANGED << config_file, file, config, last_ips, zone_id_map,
                  record_id_map, request, panic_msg, indexed, prev, loaded,
                  start_file, last_ok, lookups, answer, lost >>

\* The Err arm falling through to the save of main.rs:266.
ProbeErr_Saves ==
  /\ pc = "probe"
  /\ \E resp \in IpResponses : ~get_public_ip(resp).ok
  /\ pc' = "sleep"
  /\ current_ip' = NoIP
  /\ calls' = <<>>
  /\ writes' = 1
  /\ file' = FileJson(last_ips)
  /\ UNCHANGED << config_file, config, last_ips, zone_id_map, record_id_map, i,
                  request, panic_msg, indexed, prev, loaded, start_file,
                  last_ok, cycle, at_probe, lookups, answer, lost >>

\* main.rs:268: the probe failed; the message is printed and the cycle is over.
ProbeErr ==
  /\ pc = "probe"
  /\ \E resp \in IpResponses : ~get_public_ip(resp).ok
  /\ pc' = "sleep"
  /\ current_ip' = NoIP
  /\ calls' = <<>>
  /\ writes' = 0
  /\ UNCHANGED << config_file, file, config, last_ips, zone_id_map,
                  record_id_map, i, request, panic_msg, indexed, prev, loaded,
                  start_file, last_ok, cycle, at_probe, lookups, answer, lost >>

\* The comparison dropped: every record is taken as changed.
NeedsUpdate_Always(last_ip, ip) == TRUE

\* main.rs:239
NeedsUpdate(last_ip, ip) == last_ip # Some(ip)

\* main.rs:236-252 and 258-263, for one record: compare, and for a changed IP
\* index both id maps (HashMap's Index panics on an absent key) and send the
\* PUT.
Evaluate ==
  /\ pc = "eval"
  /\ i <= Len(config)
  /\ LET record == config[i]
         last_ip == GetStr(last_ips, record.dns_name)
     IN IF ~NeedsUpdate(last_ip, current_ip)
        THEN /\ i' = i + 1
             /\ UNCHANGED << pc, request, panic_msg, calls, indexed >>
        ELSE /\ indexed' = indexed \cup {record.dns_name}
             /\ i' = i
             /\ IF record.dns_name \notin DOMAIN zone_id_map
                THEN /\ pc' = "panicked"
                     /\ panic_msg' = "zone_id_map"
                     /\ UNCHANGED << request, calls >>
                ELSE IF record.dns_name \notin DOMAIN record_id_map
                THEN /\ pc' = "panicked"
                     /\ panic_msg' = "record_id_map"
                     /\ UNCHANGED << request, calls >>
                ELSE /\ pc' = "update"
                     /\ request' = DnsUpdateRequest(current_ip, record,
                                                    zone_id_map[record.dns_name],
                                                    record_id_map[record.dns_name])
                     /\ calls' = Append(calls, [at |-> i,
                                                name |-> record.dns_name,
                                                content |-> current_ip,
                                                result |-> "pending"])
                     /\ UNCHANGED panic_msg
  /\ answer' = NoAnswer
  /\ UNCHANGED << config_file, file, config, last_ips, zone_id_map,
                  record_id_map, current_ip, writes, prev, loaded, start_file,
                  last_ok, cycle, at_probe, lookups, lost >>

\* The .is_ok() test dropped: last_ips is assigned whatever the update returned.
AfterUpdate_Always(res, ips, dns_name, ip) == IndexAssign(ips, dns_name, ip)

\* main.rs:253-257: last_ips is assigned only when the update returned Ok.
AfterUpdate(res, ips, dns_name, ip) ==
  IF res.ok THEN IndexAssign(ips, dns_name, ip)
  ELSE [panic |-> FALSE, value |-> ips]

\* A failed update leaving the `for` (a `break`, or a `?` on the result).
NextRecord_BreakOnErr(res, at, n) == IF res.ok THEN at + 1 ELSE n + 1

\* The `for` goes on to the next record whatever the update returned.
NextRecord(res, at, n) == at + 1

\* main.rs:145-161 and 253-257: the provider answers the PUT with resp.
Respond(resp) ==
  /\ pc = "update"
  /\ LET res == update_dns_record(resp)
         record == config[i]
         assigned == AfterUpdate(res, last_ips, record.dns_name, current_ip)
     IN /\ calls' = [calls EXCEPT ![Len(calls)].result =
                       IF res.ok THEN "ok" ELSE "err"]
        /\ last_ok' = IF res.ok
                      THEN [last_ok EXCEPT ![record.dns_name] = current_ip]
                      ELSE last_ok
        /\ IF assigned.panic
           THEN /\ pc' = "panicked"
                /\ panic_msg' = "last_ips"
                /\ UNCHANGED << last_ips, i >>
           ELSE /\ pc' = "eval"
                /\ last_ips' = assigned.value
                /\ i' = NextRecord(res, i, Len(config))
                /\ UNCHANGED panic_msg
  /\ request' = NoRequest
  /\ UNCHANGED << config_file, file, config, zone_id_map, record_id_map,
                  current_ip, writes, indexed, prev, loaded, start_file, cycle,
                  at_probe, lookups, lost >>

\* The provider answers the PUT; what it answered is not kept.
UpdateResponse ==
  \E resp \in CloudflareResponses : Respond(resp) /\ answer' = NoAnswer

\* The same step with the provider's answer kept in `answer`.
UpdateResponseSeen ==
  \E resp \in CloudflareResponses : Respond(resp) /\ answer' = resp

\* main.rs:266: after the last record the mapping is saved, once.
Save ==
  /\ pc = "eval"
  /\ i > Len(config)
  /\ \E outcome \in WriteOutcomes :
       file' = save_last_ips(file, last_ips, outcome)
  /\ writes' = writes + 1
  /\ pc' = "sleep"
  /\ answer' = NoAnswer
  /\ UNCHANGED << config_file, config, last_ips, zone_id_map, record_id_map, i,
                  current_ip, request, panic_msg, calls, indexed, prev, loaded,
                  start_file, last_ok, cycle, at_probe, lookups, lost >>

\* What the cycle that just ended did, per host name.
Summary(ip, cs) ==
  [ip |-> ip,
   ok |-> { cs[k].name : k \in { j \in 1..Len(cs) : cs[j].result = "ok" } },
   fail |-> { cs[k].name : k \in { j \in 1..Len(cs) : cs[j].result = "err" } }]

\* The next cycle starting with the startup resolution over again.
Sleep_Refresh ==
  /\ pc = "sleep"
  /\ pc' = "resolve"
  /\ i' = 1
  /\ prev' = IF current_ip # NoIP THEN Summary(current_ip, calls) ELSE prev
  /\ lost' = IF current_ip # NoIP THEN {} ELSE lost
  /\ UNCHANGED << config_file, file, config, last_ips, zone_id_map,
                  record_id_map, current_ip, request, panic_msg, calls,
                  writes, indexed, loaded, start_file, last_ok, cycle, at_probe,
                  lookups, answer >>

\* main.rs:271: the interval passes and the next cycle starts.
Sleep ==
  /\ pc = "sleep"
  /\ pc' = "probe"
  /\ prev' = IF current_ip # NoIP THEN Summary(current_ip, calls) ELSE prev
  /\ lost' = IF current_ip # NoIP THEN {} ELSE lost
  /\ UNCHANGED << config_file, file, config, last_ips, zone_id_map,
                  record_id_map, i, current_ip, request, panic_msg, calls,
                  writes, indexed, loaded, start_file, last_ok, cycle, at_probe,
                  lookups, answer >>

\* The updates of the running cycle that returned Ok and that a stop at this
\* point keeps from the save of main.rs:266; `synced` tells whether the file
\* held for the name what memory held for it when the probe returned, that
\* is, whether no earlier write of the entry was lost.
Unsaved ==
  IF pc \in {"eval", "update"}
  THEN { [name |-> calls[k].name, ip |-> calls[k].content,
          synced |-> GetStr(read_last_ips(file), calls[k].name)
                       = GetStr(at_probe, calls[k].name)] :
           k \in { j \in 1..Len(calls) : calls[j].result = "ok" } }
  ELSE {}

\* The process is stopped from outside (or has ended) and is started again:
\* only the two files survive.
Stop(unsaved) ==
  /\ pc # "start"
  /\ pc' = "start"
  /\ config' = <<>>
  /\ last_ips' = JNull
  /\ zone_id_map' = EmptyIds
  /\ record_id_map' = EmptyIds
  /\ i' = 1
  /\ current_ip' = NoIP
  /\ request' = NoRequest
  /\ panic_msg' = ""
  /\ calls' = <<>>
  /\ writes' = 0
  /\ indexed' = {}
  /\ prev' = NoPrev
  /\ loaded' = JNull
  /\ start_file' = FileAbsent
  /\ last_ok' = NoLastOk
  /\ cycle' = "none"
  /\ at_probe' = JNull
  /\ lookups' = <<>>
  /\ answer' = NoAnswer
  /\ lost' = unsaved
  /\ UNCHANGED << config_file, file >>

\* A stop and restart; the updates it cut off from their save are not kept.
Restart == Stop({})

\* The same step with the updates it cut off from their save kept in `lost`.
Kill == Stop(Unsaved)

Next ==
  \/ Startup
  \/ ResolveRecord
  \/ EnterLoop
  \/ ProbeOk
  \/ ProbeErr
  \/ Evaluate
  \/ UpdateResponse
  \/ Save
  \/ Sleep
  \/ Restart

Spec == Init /\ [][Next]_vars

-----------------------------------------------------------------------------
(* Properties *)

\* A cycle whose probe returned an address is running or has just ended.
Probed == pc \in {"eval", "update", "sleep", "panicked"} /\ current_ip # NoIP

CallNames == { calls[k].name : k \in 1..Len(calls) }

\* C1: in a cycle whose probe succeeded, no update is invoked for a host name
\* whose in-memory last IP equals the probed IP: neither for one that was equal
\* when the probe returned, nor while a PUT is in flight for one that is equal
\* by then.
C1_NoUpdateWhenInSync ==
  /\ Probed =>
       \A k \in 1..Len(calls) :
         GetStr(at_probe, calls[k].name) # Some(current_ip)
  /\ pc = "update" => GetStr(last_ips, request.name) # Some(request.content)

\* C1 witness: the first record was in sync with the probed IP and the loop
\* went past it without a call.
C1_Witness ==
  /\ pc = "eval"
  /\ current_ip # NoIP
  /\ i > 1
  /\ GetStr(at_probe, config[1].dns_name) = Some(current_ip)
  /\ calls = <<>>

\* C2: once the update for a host name has returned Ok with IP X in a cycle,
\* the in-memory last IP of that name is X; and in the next probed cycle, if
\* the probe returns X again, no update is invoked for that name.
C2_SuccessIsRemembered ==
  /\ Probed =>
       \A k \in 1..Len(calls) :
         calls[k].result = "ok" =>
           GetStr(last_ips, calls[k].name) = Some(calls[k].content)
  /\ (Probed /\ current_ip = prev.ip) =>
       \A h \in prev.ok : h \notin CallNames

\* C3: when every update for a host name failed in a cycle, its last IP is
\* what it was when the probe returned, and a following cycle that probes the
\* same IP has, by its end, attempted the update for that name again with
\* that IP.
C3_FailureIsRetried ==
  /\ (pc = "sleep" /\ current_ip # NoIP) =>
       \A k \in 1..Len(calls) :
         (calls[k].result = "err"
            /\ \A j \in 1..Len(calls) :
                 calls[j].name = calls[k].name => calls[j].result = "err")
         => GetStr(last_ips, calls[k].name) = GetStr(at_probe, calls[k].name)
  /\ (pc \in {"sleep", "panicked"} /\ current_ip # NoIP /\ current_ip = prev.ip) =>
       \A h \in prev.fail \ prev.ok :
         \E k \in 1..Len(calls) :
           calls[k].name = h /\ calls[k].content = prev.ip

\* C4: once the configuration has loaded, the process never ends in a panic.
C4_NeverCrashes == pc # "panicked"

\* C5: a host name is used as a key into zone_id_map and record_id_map only
\* if both maps hold it.
C5_OnlyResolvedIndexed ==
  \A h \in indexed : h \in DOMAIN zone_id_map /\ h \in DOMAIN record_id_map

\* last_ips.txt was missing, unreadable, not JSON, or JSON that is no object.
BadStart ==
  \/ start_file.kind \in {"absent", "unreadable", "garbage"}
  \/ start_file.kind = "json" /\ start_file.value.kind # "object"

\* The configured names with both ids resolved.
Resolved ==
  { config[j].dns_name : j \in 1..Len(config) }
  \cap DOMAIN zone_id_map \cap DOMAIN record_id_map

\* C6: after a start from missing, unreadable or invalid last_ips.txt the
\* process never fails on the mapping, and the first probed cycle, when it
\* ends, has attempted an update for every resolved host name.
C6_BadFileIsEmptyMapping ==
  BadStart =>
    /\ panic_msg # "last_ips"
    /\ (cycle = "first" /\ pc = "sleep" /\ current_ip # NoIP) =>
         Resolved \subseteq CallNames

\* C7: a failed probe ends the cycle at once: no record is compared, no
\* update is called, last_ips and last_ips.txt are as before and nothing is
\* saved; the sleep that follows leaves both alone and leads to the next probe.
C7_ProbeFailureSkipsCycle ==
  /\ [][(pc = "probe" /\ pc' = "sleep") =>
          /\ last_ips' = last_ips
          /\ file' = file
          /\ i' = i
          /\ indexed' = indexed
          /\ last_ok' = last_ok
          /\ calls' = <<>>
          /\ writes' = 0]_vars
  /\ [][(pc = "sleep" /\ pc' # "start") =>
          /\ pc' = "probe"
          /\ last_ips' = last_ips
          /\ file' = file]_vars
  /\ [](pc \in {"eval", "update"} => current_ip \in IPs)

\* C7 witness: a probe failed after an earlier cycle had updated a record.
C7_Witness ==
  /\ pc = "sleep"
  /\ current_ip = NoIP
  /\ prev.ok # {}

\* The record at position j still differs from the probed IP.
Stale(j) == GetStr(last_ips, config[j].dns_name) # Some(current_ip)

\* C8: in a probed cycle the records are taken in configuration order, one
\* call at a time, and every record the loop has passed that still differs
\* from the probed IP had its update attempted, whatever the updates before it
\* returned; the mapping is saved only after the last record.
C8_SequentialAndIsolated ==
  /\ \A k \in 1..Len(calls) :
       /\ calls[k].at \in 1..Len(config)
       /\ calls[k].name = config[calls[k].at].dns_name
       /\ k > 1 => calls[k - 1].at < calls[k].at
       /\ calls[k].result = "pending" => (k = Len(calls) /\ pc = "update")
  /\ (pc \in {"eval", "update", "sleep"} /\ current_ip # NoIP) =>
       \A j \in 1..Len(config) :
         (j < i /\ Stale(j)) => \E k \in 1..Len(calls) : calls[k].at = j
  /\ (pc = "sleep" /\ current_ip # NoIP) => i = Len(config) + 1

\* C8 witness: a cycle ended in which the first call failed and a later record
\* was still updated.
C8_Witness ==
  /\ pc = "sleep"
  /\ Len(calls) >= 2
  /\ calls[1].result = "err"
  /\ calls[Len(calls)].result = "ok"
  /\ calls[Len(calls)].name # calls[1].name

\* C9: a cycle that completed a probe has, when it ends, saved the mapping
\* exactly once, and not before its last record was processed.
C9_OneSavePerProbedCycle ==
  /\ (pc \in {"sleep", "panicked"} /\ current_ip # NoIP) => writes = 1
  /\ (pc \in {"eval", "update"}) => writes = 0

\* The member of the mapping for a host name, as the loop can see it.
Absent == [kind |-> "absent", s |-> ""]
Entry(v, h) ==
  IF v.kind = "object" /\ h \in DOMAIN v.map THEN v.map[h] ELSE Absent

\* C10: every entry of last_ips is the one loaded at startup or the IP of the
\* latest update of that name that returned Ok; last_ips changes only when it
\* is loaded and when an update returns Ok, and then only in the entry of the
\* updated name.
C10_OnlySuccessMutates ==
  /\ [](pc \notin {"start", "exited"} =>
          \A h \in Hostnames :
            \/ Entry(last_ips, h) = Entry(loaded, h)
            \/ last_ok[h] # NoIP /\ Entry(last_ips, h) = JString(last_ok[h]))
  /\ [][(last_ips' # last_ips /\ pc # "start" /\ pc' # "start") =>
          /\ pc = "update"
          /\ calls'[Len(calls')].result = "ok"
          /\ Entry(last_ips', request.name) = JString(request.content)
          /\ \A h \in Hostnames \ {request.name} :
               Entry(last_ips', h) = Entry(last_ips, h)]_vars

\* C10 witness: an update returned Ok and the entry of its name is no longer
\* the loaded one, while another name keeps a loaded entry.
C10_Witness ==
  \E h, g \in Hostnames :
    /\ h # g
    /\ last_ok[h] # NoIP
    /\ Entry(last_ips, h) = JString(last_ok[h])
    /\ Entry(last_ips, h) # Entry(loaded, h)
    /\ Entry(loaded, g) # Absent
    /\ Entry(last_ips, g) = Entry(loaded, g)

\* ---------------------------------------------------------------------------
\* The control states of the `loop` of main.rs:233-272 (a panic ends it).
LoopStates == {"probe", "eval", "update", "sleep", "panicked"}

\* C11: once the loop runs, the ids resolved at startup are fixed: no step of a
\* cycle makes a zone or record lookup, the loop never goes back to the
\* resolution, and both id maps stay as startup left them, an absent entry of a
\* host name whose resolution failed included.
C11_IdsFixedAfterStartup ==
  [][(pc \in LoopStates /\ pc' # "start")
       => /\ pc' \in LoopStates
          /\ lookups = <<>> /\ lookups' = <<>>
          /\ zone_id_map' = zone_id_map
          /\ record_id_map' = record_id_map]_vars

\* A later cycle running with one host name resolved and one left unresolved.
C11_Witness ==
  /\ cycle = "later"
  /\ pc = "eval"
  /\ \E k \in 1..Len(config) : config[k].dns_name \in DOMAIN record_id_map
  /\ \E k \in 1..Len(config) : config[k].dns_name \notin DOMAIN record_id_map

\* ---------------------------------------------------------------------------
\* C12: with a configuration file that cannot be read or parsed the process
\* ends at once: it makes no lookup, no probe and no update, never loads the
\* stored mapping, and the stored file is never written.
C12_BadConfigEndsBeforeAnything ==
  /\ [](config_file.kind # "toml"
         => /\ pc \in {"start", "exited"}
            /\ lookups = <<>>
            /\ current_ip = NoIP
            /\ calls = <<>> /\ request = NoRequest
            /\ last_ips = JNull /\ loaded = JNull
            /\ writes = 0)
  /\ [][config_file.kind # "toml" => file' = file]_vars

\* The process has ended on a configuration that did not parse.
C12_Witness ==
  /\ config_file.kind = "unparsable"
  /\ pc = "exited"

\* ---------------------------------------------------------------------------
\* C13: every update request in flight is a type A request with ttl 1 that
\* names the record's own host name and carries the record's own proxied
\* flag, its content is the IP the probe of the running cycle returned, and it
\* is addressed to the zone id and the record id that startup resolved for that
\* host name; outside an update no request is in flight.
C13_RequestIsTheRecordsOwn ==
  IF pc = "update"
  THEN LET record == config[i]
       IN /\ current_ip \in IPs
          /\ record.dns_name \in DOMAIN zone_id_map
          /\ record.dns_name \in DOMAIN record_id_map
          /\ request.type = "A"
          /\ request.name = record.dns_name
          /\ request.content = current_ip
          /\ request.ttl = 1
          /\ request.proxied = record.proxied
          /\ request.zone_id = zone_id_map[record.dns_name]
          /\ request.record_id = record_id_map[record.dns_name]
  ELSE request = NoRequest

\* An update in flight for a proxied record, next to a record of another name
\* that resolved to another record id.
C13_Witness ==
  /\ pc = "update"
  /\ request.proxied
  /\ \E k \in 1..Len(config) :
       /\ config[k].dns_name \in DOMAIN record_id_map
       /\ config[k].dns_name # request.name
       /\ record_id_map[config[k].dns_name] # request.record_id

\* ---------------------------------------------------------------------------
\* C14: the update returns Ok exactly when the provider's answer arrived,
\* decoded and says success; a transport failure, an answer that does not
\* decode and an answer with success = false each make it return an error.
C14_OkIffExplicitSuccess ==
  answer # NoAnswer
    => /\ calls # <<>>
       /\ calls[Len(calls)].result \in {"ok", "err"}
       /\ calls[Len(calls)].result = "ok"
            <=> (answer.kind = "ok" /\ answer.success)

\* The provider answered a well-formed success = false and the update
\* returned an error.
C14_Witness ==
  /\ answer = [kind |-> "ok", success |-> FALSE]
  /\ calls # <<>>
  /\ calls[Len(calls)].result = "err"

\* ---------------------------------------------------------------------------
(* The startup resolution alone, for one record of any name *)

MaxNameLen == 4
Alphabet == {"e", "c", "."}
Names == Hostnames \cup UNION { [1..n -> Alphabet] : n \in 0..MaxNameLen }

InitStartup ==
  /\ config_file \in
       { [kind |-> "toml", dns_records |-> << [dns_name |-> n, proxied |-> FALSE] >>] :
           n \in Names }
  /\ file = FileAbsent
  /\ Fresh

NextStartup ==
  \/ Startup
  \/ ResolveRecord
  \/ EnterLoop

SpecStartup == InitStartup /\ [][NextStartup]_vars

\* The positions of the dots of a name, and the name from behind its last dot
\* but one on.
Dots(s) == { k \in 1..Len(s) : s[k] = "." }
Last(S) == CHOOSE k \in S : \A j \in S : j <= k
LastTwoLabels(s) ==
  LET before == Dots(s) \ {Last(Dots(s))}
  IN IF before = {} THEN s ELSE SubSeq(s, Last(before) + 1, Len(s))

\* C15: the startup iteration of a host name with a dot in it asks the zone
\* lookup, once, for the last two labels of the name joined by a dot (and the
\* record lookup, if it comes to it, for the name itself); for a name without a
\* dot it makes no lookup at all.
C15_ApexIsLastTwoLabels ==
  (pc = "resolve" /\ i > 1)
    => LET name == config[i - 1].dns_name
       IN IF Dots(name) = {}
          THEN lookups = <<>>
          ELSE /\ lookups # <<>>
               /\ lookups[1].kind = "zone"
               /\ lookups[1].target = LastTwoLabels(name)
               /\ \A k \in 2..Len(lookups) :
                    lookups[k].kind = "record" /\ lookups[k].target = name

\* The iteration of h.e.c has asked for the zone e.c.
C15_Witness ==
  /\ pc = "resolve" /\ i > 1
  /\ config[i - 1].dns_name = HomeHost
  /\ lookups # <<>>
  /\ lookups[1].target = ApexHost

\* The positions of a list whose entry has exactly the name asked for.
Matches(list, target) == { k \in 1..Len(list) : list[k].name = target }
First(S) == CHOOSE k \in S : \A j \in S : k <= j

\* C16: a zone or record lookup that got a list returns the id of the first
\* entry whose name equals the target exactly, entries of another case and
\* entries that are a part of the target or that it is a part of passed over,
\* and fails with the not-found error naming the target when there is none.
C16_FirstExactMatch ==
  \A k \in 1..Len(lookups) :
    LET l == lookups[k]
        list == l.resp.result
    IN l.resp.kind = "ok"
         => IF Matches(list, l.target) = {}
            THEN /\ ~l.result.ok
                 /\ l.result.err.target = l.target
                 /\ l.result.err.msg =
                      IF l.kind = "zone" THEN "Zone ID not found for domain"
                      ELSE "DNS record ID not found for domain"
            ELSE /\ l.result.ok
                 /\ l.result.id = list[First(Matches(list, l.target))].id

\* The zone e.c found behind entries of another case, of a longer name and of
\* its single labels, and a record lookup that found no entry for a name
\* although the list holds entries that differ in case and in length.
C16_Witness ==
  /\ Len(lookups) = 2
  /\ lookups[1].target = ApexHost
  /\ Len(lookups[1].resp.result) > 2
  /\ lookups[1].resp.result[1].name = ApexUpper
  /\ lookups[1].result = Ok("z1")
  /\ lookups[2].target = HomeHost
  /\ lookups[2].resp.kind = "ok" /\ lookups[2].resp.result # <<>>
  /\ ~lookups[2].result.ok

\* ---------------------------------------------------------------------------
(* The process stopped from outside at any point and started again, with the
   updates that each stop cut off from their save kept in `lost` *)

NextKill ==
  \/ Startup
  \/ ResolveRecord
  \/ EnterLoop
  \/ ProbeOk
  \/ ProbeErr
  \/ Evaluate
  \/ UpdateResponse
  \/ Save
  \/ Sleep
  \/ Kill

KillSpec == Init /\ [][NextKill]_vars

\* C17: when the process was stopped after an update for a host name had
\* returned Ok with IP X and before the save of that cycle (no earlier write
\* of the entry having been lost), the restarted process finds a stored entry
\* for the name that is not X, and its first probed cycle, if the probe
\* returns X, has by its end invoked the update for the name with X again.
C17_KilledUpdateIsReapplied ==
  /\ pc = "start" =>
       \A l \in lost :
         l.synced => GetStr(read_last_ips(file), l.name) # Some(l.ip)
  /\ (cycle = "first" /\ pc \in {"sleep", "panicked"} /\ current_ip # NoIP) =>
       \A l \in lost :
         (l.synced /\ l.ip = current_ip)
           => \E k \in 1..Len(calls) :
                calls[k].name = l.name /\ calls[k].content = l.ip

\* C19: no cycle invokes the update twice for one host name.
C19_OncePerHostnamePerCycle ==
  \A j, k \in 1..Len(calls) :
    calls[j].name = calls[k].name => j = k

\* ---------------------------------------------------------------------------
(* One run of the process left to itself: it is not stopped from outside, and
   while a step of main() is possible one is taken. The provider's answer to
   each PUT is kept in `answer`. *)

NextRun ==
  \/ Startup
  \/ ResolveRecord
  \/ EnterLoop
  \/ ProbeOk
  \/ ProbeErr
  \/ Evaluate
  \/ UpdateResponseSeen
  \/ Save
  \/ Sleep

LiveSpec == Init /\ [][NextRun]_vars /\ WF_vars(NextRun)

\* The PUT for host name h is in flight; the PUT for h has just returned Ok.
InFlight(h) == pc = "update" /\ request.name = h
Succeeded(h) ==
  /\ answer.kind = "ok" /\ answer.success
  /\ calls # <<>> /\ calls[Len(calls)].name = h

\* C18: for a host name h whose ids were resolved: if from some point on the
\* probed IP is x for good, and the updates for h do not fail for ever, then
\* from some point on the last IP of h is x for good; and a cycle that found
\* h at the probed IP invokes no update for h.
C18_Converges ==
  \A h \in {HomeHost, ApexHost} : \A x \in IPs :
    /\ ( /\ <>[](h \in DOMAIN record_id_map /\ current_ip = x)
         /\ ([]<>InFlight(h) => []<>Succeeded(h)) )
       => <>[](GetStr(last_ips, h) = Some(x))
    /\ []((Probed /\ GetStr(at_probe, h) = Some(current_ip)) => h \notin CallNames)


============================================================================
